---- MODULE Spec2Model ----
(***************************************************************************)
(* Model of the Living Library command-line catalog browser                *)
(* (src/living_lib2.py): the LivingLibrary store (load, list, search,      *)
(* id lookup) and the menu loop of main().                                 *)
(*                                                                         *)
(* Python strings are sequences of one-character strings, so that          *)
(* lower(), strip(), replace(), join(), int() and str.contains() are       *)
(* computed character by character.  Values that are not strings (NaN,    *)
(* None, False) are one-element sequences holding a marker that is no      *)
(* character.  The columns Format, Publisher and Free Download are only    *)
(* printed and are left out of the rows.                                   *)
(***************************************************************************)
EXTENDS Integers, Sequences, FiniteSets, TLC

VARIABLES
    pc,          \* position of main(): "start", a prompt, "done", "crashed"
    file,        \* the spreadsheet behind spreadsheet_path
    df,          \* library.df: the loaded table, a sequence of rows
    user_input,  \* the line most recently read by input()
    op,          \* the store method called by the latest step, or "none"
    arg,         \* the argument handed to that method
    ret,         \* the value access_item returned in the latest step
    shown        \* the rows the latest step printed

vars == <<pc, file, df, user_input, op, arg, ret, shown>>

----------------------------------------------------------------------------
(* Bounds of the model.                                                    *)

MaxRows == 2
MaxQueryLen == 2
MaxYearLen == 4

----------------------------------------------------------------------------
(* Values that are not strings.                                            *)

NaN == <<"<NaN>">>
PyNone == <<"<None>">>
PyFalse == <<"<False>">>
NoInput == <<"<nothing read>">>

\* bool(v) of a value that is a string, None or False
Truthy(v) == v # PyFalse /\ v # PyNone /\ v # <<>>

----------------------------------------------------------------------------
(* String primitives of Python.                                            *)

UpperChars == <<"A","B","C","D","E","F","G","H","I","J","K","L","M",
                "N","O","P","Q","R","S","T","U","V","W","X","Y","Z">>
LowerChars == <<"a","b","c","d","e","f","g","h","i","j","k","l","m",
                "n","o","p","q","r","s","t","u","v","w","x","y","z">>
DigitChars == <<"0","1","2","3","4","5","6","7","8","9">>
SpaceChars == {" ", "\t", "\n"}

lower_char(c) ==
    IF \E i \in DOMAIN UpperChars : UpperChars[i] = c
    THEN LowerChars[CHOOSE i \in DOMAIN UpperChars : UpperChars[i] = c]
    ELSE c

\* str.lower()
str_lower(s) == [i \in 1..Len(s) |-> lower_char(s[i])]

RECURSIVE str_lstrip(_)
str_lstrip(s) ==
    IF s # <<>> /\ Head(s) \in SpaceChars THEN str_lstrip(Tail(s)) ELSE s

RECURSIVE str_rstrip(_)
str_rstrip(s) ==
    IF s # <<>> /\ s[Len(s)] \in SpaceChars
    THEN str_rstrip(SubSeq(s, 1, Len(s) - 1))
    ELSE s

\* str.strip()
str_strip(s) == str_rstrip(str_lstrip(s))

StartsWith(s, p) == Len(s) >= Len(p) /\ SubSeq(s, 1, Len(p)) = p

\* str.replace(old, new): every non-overlapping occurrence, left to right
RECURSIVE str_replace(_, _, _)
str_replace(s, old, new) ==
    IF s = <<>> THEN <<>>
    ELSE IF StartsWith(s, old)
    THEN new \o str_replace(SubSeq(s, Len(old) + 1, Len(s)), old, new)
    ELSE <<Head(s)>> \o str_replace(Tail(s), old, new)

\* sep.join(parts)
RECURSIVE str_join(_, _)
str_join(sep, parts) ==
    IF parts = <<>> THEN <<>>
    ELSE IF Len(parts) = 1 THEN parts[1]
    ELSE parts[1] \o sep \o str_join(sep, Tail(parts))

IsDigit(c) == \E i \in DOMAIN DigitChars : DigitChars[i] = c
DigitValue(c) == (CHOOSE i \in DOMAIN DigitChars : DigitChars[i] = c) - 1

\* str(n) of a non-negative integer
RECURSIVE int_str(_)
int_str(n) ==
    IF n < 10 THEN <<DigitChars[n + 1]>>
    ELSE int_str(n \div 10) \o <<DigitChars[(n % 10) + 1]>>

\* str(x) of a non-negative float given in hundredths: 199900 is 1999.0,
\* 200050 is 2000.5, 200005 is 2000.05
float_str(h) ==
    int_str(h \div 100) \o <<".">> \o
    (IF h % 10 = 0 THEN <<DigitChars[((h % 100) \div 10) + 1]>>
     ELSE <<DigitChars[((h % 100) \div 10) + 1], DigitChars[(h % 10) + 1]>>)

----------------------------------------------------------------------------
(* int(text): surrounding whitespace, one optional sign, then digits with  *)
(* single underscores allowed between digits.  ok = FALSE is ValueError.   *)

RECURSIVE DigitsValue(_, _)
DigitsValue(s, acc) ==
    IF s = <<>> THEN acc
    ELSE IF Head(s) = "_" THEN DigitsValue(Tail(s), acc)
    ELSE DigitsValue(Tail(s), 10 * acc + DigitValue(Head(s)))

IsIntBody(s) ==
    /\ s # <<>>
    /\ \A i \in 1..Len(s) : IsDigit(s[i]) \/ s[i] = "_"
    /\ IsDigit(s[1]) /\ IsDigit(s[Len(s)])
    /\ \A i \in 1..(Len(s) - 1) : ~(s[i] = "_" /\ s[i + 1] = "_")

py_int(text) ==
    LET t == str_strip(text)
        signed == t # <<>> /\ Head(t) \in {"-", "+"}
        body == IF signed THEN Tail(t) ELSE t
    IN  IF IsIntBody(body)
        THEN [ok |-> TRUE,
              val |-> IF signed /\ Head(t) = "-"
                      THEN 0 - DigitsValue(body, 0)
                      ELSE DigitsValue(body, 0)]
        ELSE [ok |-> FALSE, val |-> 0]

----------------------------------------------------------------------------
(* pandas string matching.  Series.str.contains(pat, case=False, na=False) *)
(* keeps its default regex=True: pat is compiled as a regular expression   *)
(* with re.IGNORECASE and searched anywhere in the cell.  Over the         *)
(* characters of this model the only regex metacharacter is ".", which     *)
(* matches any character but a newline; every other character matches      *)
(* itself, case-insensitively.                                             *)

re_atom_match(p, c) ==
    IF p = "." THEN c # "\n" ELSE lower_char(p) = lower_char(c)

re_search_ignorecase(pat, text) ==
    \E i \in 0..(Len(text) - Len(pat)) :
        \A j \in 1..Len(pat) : re_atom_match(pat[j], text[i + j])

str_contains(cell, pat) ==
    IF cell = NaN THEN FALSE ELSE re_search_ignorecase(pat, cell)

\* Series.unique(): the distinct values in first-seen order
RECURSIVE unique(_)
unique(s) ==
    IF s = <<>> THEN <<>>
    ELSE LET u == unique(SubSeq(s, 1, Len(s) - 1))
             x == s[Len(s)]
         IN  IF \E i \in DOMAIN u : u[i] = x THEN u ELSE Append(u, x)

Column(d, name) == [i \in 1..Len(d) |-> d[i][name]]

\* ', '.join(values) raises TypeError when a value is NaN (a float)
JoinRaises(values) == \E i \in DOMAIN values : values[i] = NaN

----------------------------------------------------------------------------
(* LivingLibrary.load_library_data                                         *)

CommaSpace == <<",", " ">>
Unknown == <<"U","n","k","n","o","w","n">>
NotApplicable == <<"n","/","a">>
DotZero == <<".","0">>

\* A Year cell as the reader delivers it: NaN, a float (n in hundredths),
\* an int (n) or a string (s).
YearNaN == [t |-> "nan", s |-> <<>>, n |-> 0]
YearStr(s) == [t |-> "str", s |-> s, n |-> 0]
YearFloat(h) == [t |-> "float", s |-> <<>>, n |-> h]
YearInt(n) == [t |-> "int", s |-> <<>>, n |-> n]

\* .fillna('Unknown').astype(str)
year_astype_str(cell) ==
    CASE cell.t = "nan" -> Unknown
      [] cell.t = "float" -> float_str(cell.n)
      [] cell.t = "int" -> int_str(cell.n)
      [] OTHER -> cell.s

\* df['Year'].fillna('Unknown').astype(str).str.replace('.0', '', regex=False)
normalize_year(cell) == str_replace(year_astype_str(cell), DotZero, <<>>)

\* .fillna('')
fillna_empty(cells) ==
    [i \in 1..Len(cells) |-> IF cells[i] = NaN THEN <<>> ELSE cells[i]]

\* collapse_authors without the final .replace('', 'Unknown')
collapse_authors_without_unknown(cells) ==
    LET x == fillna_empty(cells)
        kept == SelectSeq(x, LAMBDA val : val # <<>> /\ val # NotApplicable)
    IN  str_join(CommaSpace, kept)

\* the lambda of the apply over the author columns, then
\* .replace('', 'Unknown')
collapse_authors(cells) ==
    LET x == fillna_empty(cells)
        kept == SelectSeq(x, LAMBDA val : val # <<>> /\ val # NotApplicable)
        joined == str_join(CommaSpace, kept)
    IN  IF joined = <<>> THEN Unknown ELSE joined

\* assign_id with range(len(df)): ids from 0
assign_id_from_zero(k) == k - 1

\* df['ID'] = range(1, len(df) + 1)
assign_id(k) == k

normalize_row(raw, k) ==
    [ID |-> assign_id(k),
     Title |-> raw.Title,
     Subtitle |-> raw.Subtitle,
     Authors |-> collapse_authors(raw.Author),
     Type |-> raw.Type,
     Topic |-> raw.Topic,
     Year |-> normalize_year(raw.Year)]

\* the body of the try block: exc is the exception it raises, or "none"
load_try(f) ==
    IF f.suffix \notin {".xlsx", ".csv"}
    THEN [exc |-> "ValueError", val |-> <<>>]
    ELSE IF ~f.readable
    THEN [exc |-> "ParserError", val |-> <<>>]
    ELSE IF ~f.has_columns
    THEN [exc |-> "KeyError", val |-> <<>>]
    ELSE [exc |-> "none",
          val |-> [k \in 1..Len(f.rows) |-> normalize_row(f.rows[k], k)]]

\* load_library_data without the except clause
load_library_data_uncaught(f) == load_try(f)

\* except Exception: return pd.DataFrame()
load_library_data(f) ==
    LET r == load_try(f)
    IN  IF r.exc # "none" THEN [exc |-> "none", val |-> <<>>] ELSE r

----------------------------------------------------------------------------
(* The query methods.  Each returns the table it leaves in self.df, the    *)
(* rows it printed and the value it returned.                              *)

\* display_inventory filtering self.df itself instead of a copy
display_inventory_in_place(d, filter_type) ==
    LET display_df ==
            IF Truthy(filter_type)
            THEN SelectSeq(d, LAMBDA row : str_contains(row.Type, filter_type))
            ELSE d
    IN  [df |-> display_df, shown |-> display_df, ret |-> PyNone]

display_inventory(d, filter_type) ==
    LET display_df ==
            IF Truthy(filter_type)
            THEN SelectSeq(d, LAMBDA row : str_contains(row.Type, filter_type))
            ELSE d
    IN  [df |-> d, shown |-> display_df, ret |-> PyNone]

search_books(d, query) ==
    LET q == str_lower(query)
        matches ==
            SelectSeq(d, LAMBDA row :
                \/ str_contains(row.Title, q)
                \/ str_contains(row.Authors, q)
                \/ str_contains(row.Topic, q)
                \/ str_contains(row.Subtitle, q))
    IN  [df |-> d, shown |-> matches, ret |-> PyNone]

InvalidFormat == <<-1, "Please enter a valid item ID number">>
InvalidId == <<-1, "Invalid item ID">>
Displayed == <<0, "Item details displayed">>

\* access_item reading self.df.iloc[book_id]: the id taken as a position
access_item_by_position(d, book_id) ==
    LET p == py_int(book_id)
    IN  IF ~p.ok
        THEN [df |-> d, shown |-> <<>>, ret |-> InvalidFormat]
        ELSE IF ~(\E i \in DOMAIN d : d[i].ID = p.val)
        THEN [df |-> d, shown |-> <<>>, ret |-> InvalidId]
        ELSE LET item == d[IF p.val < Len(d) THEN p.val + 1 ELSE 1]
             IN  [df |-> d, shown |-> <<item>>, ret |-> Displayed]

access_item(d, book_id) ==
    LET p == py_int(book_id)
    IN  IF ~p.ok
        THEN [df |-> d, shown |-> <<>>, ret |-> InvalidFormat]
        ELSE IF ~(\E i \in DOMAIN d : d[i].ID = p.val)
        THEN [df |-> d, shown |-> <<>>, ret |-> InvalidId]
        ELSE LET book_idx ==
                     (CHOOSE i \in DOMAIN d :
                          /\ d[i].ID = p.val
                          /\ \A j \in DOMAIN d : d[j].ID = p.val => i <= j) - 1
                 item == d[book_idx + 1]
             IN  [df |-> d, shown |-> <<item>>, ret |-> Displayed]

get_types(d) == [df |-> d, shown |-> <<>>, ret |-> unique(Column(d, "Type"))]

----------------------------------------------------------------------------
(* check_quit_or_back, safe_input and the command words of main()          *)

QUIT == <<"Q","U","I","T">>
BACK == <<"B","A","C","K">>

quit_words == {<<"!","q">>, <<"q","u","i","t">>, <<"e","x","i","t">>}
back_words == {<<"!","b">>, <<"b","a","c","k">>, <<"r","e","t","u","r","n">>, <<"m","e","n","u">>}
access_words == {<<"a">>, <<"a","c","c","e","s","s">>, <<"v","i","e","w">>, <<"o","p","e","n">>}
inventory_words == 
    {<<"i">>, <<"i","n","v","e","n","t","o","r","y">>, <<"l","i","s","t">>, <<"s","h","o","w">>, <<"b","r","o","w","s","e">>}
search_words == {<<"s">>, <<"s","e","a","r","c","h">>, <<"f","i","n","d">>}
yes_words == {<<"y","e","s">>, <<"y">>}
no_words == {<<"n","o">>, <<"n">>}

check_quit_or_back(text) ==
    LET u == str_strip(str_lower(text))
    IN  IF u \in quit_words THEN QUIT
        ELSE IF u \in back_words THEN BACK
        ELSE PyFalse

safe_input(text) ==
    IF Truthy(check_quit_or_back(text)) THEN BACK ELSE text

----------------------------------------------------------------------------
(* The inputs of the model: the source files and the lines typed.          *)

Suffixes == {".csv", ".xlsx", ".json"}

NoAuthors == <<NaN, NaN, NaN, NaN, NaN>>

RowPool ==
    { [Title |-> <<"A","b">>, Subtitle |-> NaN,
       Author |-> <<<<"A","l">>, NaN, NaN, NaN, NaN>>,
       Type |-> <<"B","o","o","k">>, Topic |-> <<"a","b">>, Year |-> YearFloat(199900)],
      [Title |-> <<"B","B">>, Subtitle |-> <<"a","b">>,
       Author |-> <<NaN, NotApplicable, <<>>, <<"B","o">>, <<"A","l">>>>,
       Type |-> <<"e","B","o","o","k">>, Topic |-> <<"b">>, Year |-> YearNaN],
      [Title |-> <<"a">>, Subtitle |-> <<>>,
       Author |-> NoAuthors,
       Type |-> NaN, Topic |-> <<"B","a">>, Year |-> YearStr(<<"c",".","0","1">>)] }

RECURSIVE SeqsUpTo(_, _)
SeqsUpTo(S, n) ==
    IF n = 0 THEN {<<>>}
    ELSE LET shorter == SeqsUpTo(S, n - 1)
         IN  shorter \cup {Append(q, x) : q \in shorter, x \in S}

Files ==
    [exists : BOOLEAN, suffix : Suffixes, readable : BOOLEAN,
     has_columns : BOOLEAN, rows : SeqsUpTo(RowPool, MaxRows)]

QueryChars == {"B", "."}

TypedLines ==
    { <<"a">>,
      <<"v","i","e","w">>,
      <<"i">>,
      <<"l","i","s","t">>,
      <<"s">>,
      <<" ","S","e","a","r","c","h"," ">>,
      <<"q","u","i","t">>,
      <<"!","q">>,
      <<" ","E","X","I","T"," ">>,
      <<"Q","U","I","T">>,
      <<"b","a","c","k">>,
      <<"!","b">>,
      <<"B","A","C","K">>,
      <<>>,
      <<"1">>,
      <<"2">>,
      <<" ","2"," ">>,
      <<"3">>,
      <<"0">>,
      <<"-","1">>,
      <<"+","1">>,
      <<"1","_","0">>,
      <<"a","b","c">>,
      <<"2",".","0">>,
      <<"y","e","s">>,
      <<"y">>,
      <<"Y">>,
      <<"n","o">>,
      <<"m","a","y","b","e">>,
      <<"b","o","o","k">>,
      <<"B","O","O","K">>,
      <<"b",".",".","k">>,
      <<"o","o">>,
      <<" ">> }

Inputs == TypedLines \cup SeqsUpTo(QueryChars, MaxQueryLen)

----------------------------------------------------------------------------
(* main()                                                                  *)

Init ==
    /\ pc = "start"
    /\ file \in Files
    /\ df = <<>>
    /\ user_input = NoInput
    /\ op = "none"
    /\ arg = PyNone
    /\ ret = PyNone
    /\ shown = <<>>

\* a step that calls method o of the store with argument a; r is what the
\* method yields
Call(o, a, r) ==
    /\ op' = o
    /\ arg' = a
    /\ df' = r.df
    /\ ret' = r.ret
    /\ shown' = r.shown

NoCall ==
    /\ op' = "none"
    /\ arg' = PyNone
    /\ df' = df
    /\ ret' = PyNone
    /\ shown' = <<>>

\* the topics line printed at the top of the search loop
SearchLoopTop(d) ==
    LET topics == unique(Column(d, "Topic"))
        joined == IF Len(topics) > 10 THEN SubSeq(topics, 1, 10) ELSE topics
    IN  IF JoinRaises(joined) THEN "crashed" ELSE "search_query"

\* the types and topics lines printed before the filter prompt
InventoryTop(types, d) ==
    LET topics == unique(Column(d, "Topic"))
        joined == IF Len(topics) > 10 THEN SubSeq(topics, 1, 3) ELSE topics
    IN  IF JoinRaises(types) \/ JoinRaises(joined)
        THEN "crashed"
        ELSE "inv_filter"

\* from the start of main() to the first menu
MainStart ==
    /\ pc = "start"
    /\ IF ~file.exists
       THEN pc' = "done" /\ df' = df
       ELSE LET r == load_library_data(file)
            IN  IF r.exc # "none"
                THEN pc' = "crashed" /\ df' = df
                ELSE /\ df' = r.val
                     /\ pc' = IF r.val = <<>> THEN "done" ELSE "menu"
    /\ op' = "none" /\ arg' = PyNone /\ ret' = PyNone /\ shown' = <<>>
    /\ UNCHANGED <<file, user_input>>

\* the "Enter Command" prompt and the dispatch on the command
MenuCommand(u) ==
    /\ pc = "menu"
    /\ user_input' = u
    /\ LET user_choice == str_strip(str_lower(safe_input(u)))
       IN  IF user_choice = BACK
           THEN pc' = "menu" /\ NoCall
           ELSE IF user_choice \in quit_words
           THEN pc' = "done" /\ NoCall
           ELSE IF user_choice \in access_words
           THEN /\ Call("display_inventory", PyNone,
                        display_inventory(df, PyNone))
                /\ pc' = "access_id"
           ELSE IF user_choice \in inventory_words
           THEN LET t == get_types(df)
                IN  /\ Call("get_types", PyNone, t)
                    /\ pc' = InventoryTop(t.ret, t.df)
           ELSE IF user_choice \in search_words
           THEN pc' = SearchLoopTop(df) /\ NoCall
           ELSE pc' = "menu" /\ NoCall
    /\ UNCHANGED file

\* the "Enter item ID to view details" prompt
AccessId(u) ==
    /\ pc = "access_id"
    /\ user_input' = u
    /\ LET book_id == safe_input(u)
       IN  IF book_id = QUIT
           THEN pc' = "done" /\ NoCall
           ELSE IF book_id = BACK
           THEN pc' = "menu" /\ NoCall
           ELSE /\ Call("access_item", book_id, access_item(df, book_id))
                /\ pc' = "menu"
    /\ UNCHANGED file

\* the "Filter by type or topic" prompt
InvFilter(u) ==
    /\ pc = "inv_filter"
    /\ user_input' = u
    /\ LET filter_choice == str_strip(safe_input(u))
           filter_type == IF Truthy(filter_choice) THEN filter_choice
                          ELSE PyNone
       IN  IF filter_choice = QUIT
           THEN pc' = "done" /\ NoCall
           ELSE IF filter_choice = BACK
           THEN pc' = "menu" /\ NoCall
           ELSE /\ Call("display_inventory", filter_type,
                        display_inventory(df, filter_type))
                /\ pc' = "inv_pause"
    /\ UNCHANGED file

\* the "Press Enter to return to main menu" prompt
InvPause(u) ==
    /\ pc = "inv_pause"
    /\ user_input' = u
    /\ LET pause == safe_input(u)
       IN  pc' = IF pause = QUIT THEN "done" ELSE "menu"
    /\ NoCall
    /\ UNCHANGED file

\* the "Enter search term" prompt
SearchQuery(u) ==
    /\ pc = "search_query"
    /\ user_input' = u
    /\ LET query == safe_input(u)
       IN  IF query \in {QUIT, BACK}
           THEN pc' = "menu" /\ NoCall
           ELSE /\ Call("search_books", query, search_books(df, query))
                /\ pc' = "search_found"
    /\ UNCHANGED file

\* the "Did you find what you were looking for?" prompt
SearchFound(u) ==
    /\ pc = "search_found"
    /\ user_input' = u
    /\ LET found == str_lower(safe_input(u))
       IN  pc' = IF found \in yes_words THEN "search_id"
                 ELSE IF found \in no_words THEN SearchLoopTop(df)
                 ELSE "menu"
    /\ NoCall
    /\ UNCHANGED file

\* the "Enter the ID of the item you want to access" prompt
SearchId(u) ==
    /\ pc = "search_id"
    /\ user_input' = u
    /\ LET link_id == safe_input(u)
       IN  IF link_id \in {QUIT, BACK}
           THEN pc' = "menu" /\ NoCall
           ELSE /\ Call("access_item", link_id, access_item(df, link_id))
                /\ pc' = "done"
    /\ UNCHANGED file

Next ==
    \/ MainStart
    \/ \E u \in Inputs : MenuCommand(u)
    \/ \E u \in Inputs : AccessId(u)
    \/ \E u \in Inputs : InvFilter(u)
    \/ \E u \in Inputs : InvPause(u)
    \/ \E u \in Inputs : SearchQuery(u)
    \/ \E u \in Inputs : SearchFound(u)
    \/ \E u \in Inputs : SearchId(u)

Spec == Init /\ [][Next]_vars

----------------------------------------------------------------------------
(* Loading alone, over every combination of author cells and over every    *)
(* kind of Year cell: one source row, main() run up to the first menu.     *)

AuthorCells == {NaN, <<>>, NotApplicable, <<"N","/","A">>, <<"A","l">>, <<"B","o">>}

YearChars == {"1", "0", ".", "c"}

YearCells ==
    {YearNaN}
    \cup {YearFloat(h) : h \in {100, 1000, 199900, 200050, 200005}}
    \cup {YearInt(n) : n \in {0, 10, 1999}}
    \cup {YearStr(y) : y \in SeqsUpTo(YearChars, MaxYearLen)}

LoadRows ==
    {[Title |-> <<"A","b">>, Subtitle |-> NaN, Author |-> au,
      Type |-> <<"B","o","o","k">>, Topic |-> <<"a","b">>, Year |-> YearFloat(199900)] :
        au \in [1..5 -> AuthorCells]}
    \cup
    {[Title |-> <<"A","b">>, Subtitle |-> NaN, Author |-> NoAuthors,
      Type |-> <<"B","o","o","k">>, Topic |-> <<"a","b">>, Year |-> y] : y \in YearCells}

InitLoad ==
    /\ pc = "start"
    /\ file \in [exists : {TRUE}, suffix : {".csv", ".xlsx"},
                 readable : {TRUE}, has_columns : {TRUE},
                 rows : {<<row>> : row \in LoadRows}]
    /\ df = <<>>
    /\ user_input = NoInput
    /\ op = "none"
    /\ arg = PyNone
    /\ ret = PyNone
    /\ shown = <<>>

NextLoad == MainStart

SpecLoad == InitLoad /\ [][NextLoad]_vars

----------------------------------------------------------------------------
(* Properties.                                                             *)

Prompts ==
    {"menu", "access_id", "inv_filter", "inv_pause",
     "search_query", "search_found", "search_id"}

IsQuitWord(text) == str_strip(str_lower(text)) \in quit_words

EndsWith(s, suffix) ==
    Len(s) >= Len(suffix)
    /\ SubSeq(s, Len(s) - Len(suffix) + 1, Len(s)) = suffix

\* q occurs in text as a literal substring, letter case ignored
LiteralContains(text, q) ==
    \E i \in 0..(Len(text) - Len(q)) :
        \A j \in 1..Len(q) : lower_char(text[i + j]) = lower_char(q[j])

FieldHas(cell, q) == cell # NaN /\ LiteralContains(cell, q)

LoadFails(f) ==
    f.suffix \notin {".xlsx", ".csv"} \/ ~f.readable \/ ~f.has_columns

Loaded == pc # "start" /\ file.exists

\* C1: a quit word typed at the main-menu, item-id, filter or pause prompt
\* makes main() leave the menu loop and return.
C1_QuitTerminates ==
    [][(pc \in {"menu", "access_id", "inv_filter", "inv_pause"}
        /\ IsQuitWord(user_input')) => pc' = "done"]_vars

\* C2: whenever access_item returns an error outcome, in either flow that
\* calls it, the session goes on and the user is prompted again.
C2_LoopSurvivesQueryError ==
    [][(op' = "access_item" /\ ret'[1] = -1) => pc' \in Prompts]_vars

\* C3: on a non-empty catalog of N rows access_item answers an input that
\* is no integer with the invalid-format error, an integer outside 1..N
\* with the not-found error, and any other input with success and the row
\* whose id is the parsed integer; the three outcomes differ.
C3_IdLookupContract ==
    (op = "access_item" /\ df # <<>>) =>
        LET p == py_int(arg)
        IN  /\ ~p.ok =>
                /\ ret = <<-1, "Please enter a valid item ID number">>
                /\ shown = <<>>
            /\ (p.ok /\ p.val \notin 1..Len(df)) =>
                /\ ret = <<-1, "Invalid item ID">>
                /\ shown = <<>>
            /\ (p.ok /\ p.val \in 1..Len(df)) =>
                /\ ret[1] = 0
                /\ Len(shown) = 1
                /\ shown[1].ID = p.val
                /\ shown[1] = df[p.val]
            /\ Cardinality({ret, InvalidFormat, InvalidId, Displayed}) = 3

C3_Witness ==
    /\ op = "access_item"
    /\ arg = <<" ","2"," ">>
    /\ Len(df) = 2
    /\ ret[1] = 0
    /\ shown = <<df[2]>>

\* C4: search_books shows exactly the rows of which title, authors, topic
\* or subtitle contains the query as a literal substring, letter case
\* ignored, in id order and once each; an absent subtitle never matches.
C4_SearchLiteralSubstring ==
    op = "search_books" =>
        shown = SelectSeq(df, LAMBDA row :
                    \/ FieldHas(row.Title, arg)
                    \/ FieldHas(row.Authors, arg)
                    \/ FieldHas(row.Topic, arg)
                    \/ FieldHas(row.Subtitle, arg))

\* C5: display_inventory shows exactly the rows whose type contains the
\* filter as a literal substring, letter case ignored, in id order, and
\* every row when the filter is absent or empty.
C5_FilterLiteralSubstring ==
    op = "display_inventory" =>
        shown = IF arg = PyNone \/ arg = <<>>
                THEN df
                ELSE SelectSeq(df, LAMBDA row : FieldHas(row.Type, arg))

\* C6: a load that fails (unrecognized extension, read, parse or
\* normalization failure) raises nothing and leaves the store empty, and
\* with an empty store main() returns before the first prompt and before
\* any query.
C6_LoadFailureAbsorbed ==
    Loaded =>
        /\ LoadFails(file) => (df = <<>> /\ pc = "done")
        /\ df = <<>> =>
               (pc = "done" /\ user_input = NoInput /\ op = "none")

C6_Witness ==
    /\ Loaded
    /\ file.suffix = ".json"
    /\ file.rows # <<>>
    /\ df = <<>>
    /\ pc = "done"

\* C7: after a successful load of N rows the ids are 1..N, the k-th source
\* row has id k, and list, search and lookup operations keep it so.
C7_IdsContiguous ==
    (Loaded /\ ~LoadFails(file)) =>
        /\ Len(df) = Len(file.rows)
        /\ \A k \in 1..Len(df) :
               /\ df[k].ID = k
               /\ df[k].Title = file.rows[k].Title
               /\ df[k].Topic = file.rows[k].Topic
        /\ \A i, j \in 1..Len(df) : df[i].ID = df[j].ID => i = j

C7_Witness ==
    /\ Loaded
    /\ Len(df) = 2
    /\ df[1].Title # df[2].Title
    /\ op = "search_books"
    /\ Len(shown) = 1
    /\ shown[1].ID = 2

\* C8: a missing year becomes "Unknown"; a year whose string form ends in
\* ".0" loses exactly that suffix; a non-numeric year string that does not
\* end in ".0" is kept as it is.
C8_YearNormalization ==
    (Loaded /\ ~LoadFails(file)) =>
        \A k \in 1..Len(df) :
            LET cell == file.rows[k].Year
                text == year_astype_str(cell)
            IN  /\ cell.t = "nan" => df[k].Year = Unknown
                /\ (cell.t # "nan" /\ EndsWith(text, DotZero)) =>
                       df[k].Year = SubSeq(text, 1, Len(text) - 2)
                /\ (cell.t = "str" /\ ~EndsWith(text, DotZero)) =>
                       df[k].Year = text

\* C9: the collapsed authors are the author cells that are neither missing,
\* empty nor "n/a", joined in column order by ", ", or "Unknown" when there
\* is none; they are never the empty string.
C9_AuthorCollapse ==
    (Loaded /\ ~LoadFails(file)) =>
        \A k \in 1..Len(df) :
            LET kept == SelectSeq(file.rows[k].Author, LAMBDA val :
                            val \notin {NaN, <<>>, NotApplicable})
            IN  /\ kept # <<>> =>
                       df[k].Authors = str_join(CommaSpace, kept)
                /\ kept = <<>> => df[k].Authors = Unknown
                /\ df[k].Authors # <<>>

C9_Witness ==
    /\ Loaded
    /\ Len(df) = 1
    /\ file.rows[1].Author = <<<<"A","l">>, <<>>, NotApplicable, NaN, <<"B","o">>>>
    /\ df[1].Authors = <<"A","l",","," ","B","o">>

\* C10: display_inventory, search_books, access_item and get_types leave
\* the store as it was loaded, whatever they find or return, so a query
\* gives what it gives on the table as loaded.
C10_StoreImmutable ==
    /\ [][pc # "start" => df' = df]_vars
    /\ [](Loaded => df = load_library_data(file).val)
    /\ [](op = "search_books" =>
              shown = search_books(load_library_data(file).val, arg).shown)
    /\ [](op = "display_inventory" =>
              shown = display_inventory(load_library_data(file).val,
                                        arg).shown)

C10_Witness ==
    /\ op = "display_inventory"
    /\ Truthy(arg)
    /\ Len(df) = 2
    /\ Len(shown) = 1

====
